---- MODULE Spec2Model ----
(***************************************************************************)
(* Model of prover/src/trace/trace_lde.rs: the TraceLde store holding the  *)
(* low-degree extension of the main trace segment and of the auxiliary     *)
(* trace segments, and the frame reads made against it.                    *)
(*                                                                         *)
(* usize values are modelled as naturals: every sum the model forms        *)
(* (lde_step + blowup, the fold of column counts) stays far below 2^64     *)
(* for the row counts and blowup factors enumerated here.                  *)
(***************************************************************************)
EXTENDS Naturals, Sequences, FiniteSets

\* ---------------------------------------------------------------- bounds
\* largest number of rows of a segment LDE
MaxRows == 8
\* largest number of columns of an auxiliary segment LDE
MaxCols == 2
\* largest blowup factor handed to new()
MaxBlowup == 4
\* largest number of auxiliary segments pushed
MaxAux == 2

\* ------------------------------------------------------------- RowMatrix
\* A matrix stored row-major in one vector, row_width elements per row.
\* Field elements are naturals; the element at flat index i is base + i.
RowMatrix(nrows, ncols, base) ==
    [data |-> [i \in 1..(nrows * ncols) |-> base + (i - 1)], row_width |-> ncols]

num_cols(m) == m.row_width

num_rows(m) == Len(m.data) \div m.row_width

\* row(row_idx) is only evaluated with row_idx < num_rows (it panics otherwise)
row(m, row_idx) ==
    SubSeq(m.data, row_idx * m.row_width + 1, (row_idx + 1) * m.row_width)

\* the matrices the extension stage can hand over: main segments over the
\* base field (MaxCols + 1 columns) and auxiliary segments over the extension
\* field, whose element values are disjoint from the main segment's
MainMatrices ==
    {RowMatrix(r, MaxCols + 1, 0) : r \in 0..MaxRows}

AuxMatrices ==
    {RowMatrix(r, c, (MaxRows + 1) * (MaxCols + 1)) : r \in 0..MaxRows, c \in 1..MaxCols}

\* ------------------------------------------------------- EvaluationFrame
EmptyFrame == [current |-> << >>, next |-> << >>]

\* a frame whose storage still holds the rows of an earlier evaluation
StaleFrame == [current |-> <<0>>, next |-> <<0>>]

\* a frame is owned by the caller and passed by &mut to each read
InFrames == {EmptyFrame, StaleFrame}

set_data(fr, current, next) == [fr EXCEPT !.current = current, !.next = next]

\* ------------------------------------------------------------------ state
VARIABLES
    lde,      \* the TraceLde: main_segment_lde, aux_segment_ldes, blowup
    out,      \* the last call: name, argument, outcome ("ok" or "panic"),
              \*   value returned or frame left behind, next_lde_step computed
    created,  \* history: the arguments new() was called with
    pushed,   \* history: the segments add_aux_segment accepted, in call order
    reading   \* history: TRUE once a frame read or a segment view was made

vars == <<lde, out, created, pushed, reading>>

\* ------------------------------------------------------------ TraceLde
\* variant: a zero blowup is replaced by 1 instead of being stored as given
new_defaulting(main_trace_lde, blowup_arg) ==
    [main_segment_lde |-> main_trace_lde,
     aux_segment_ldes |-> << >>,
     blowup           |-> IF blowup_arg = 0 THEN 1 ELSE blowup_arg]

new(main_trace_lde, blowup_arg) ==
    [main_segment_lde |-> main_trace_lde,
     aux_segment_ldes |-> << >>,
     blowup           |-> blowup_arg]

\* variant: the segment is pushed before the row counts are compared
add_aux_segment_push_first(self, aux_segment_lde) ==
    LET grown == [self EXCEPT !.aux_segment_ldes = Append(@, aux_segment_lde)] IN
    IF num_rows(self.main_segment_lde) # num_rows(aux_segment_lde)
    THEN [ret |-> "panic", self |-> grown]
    ELSE [ret |-> "ok", self |-> grown]

\* variant: the segment is inserted at the front of the vector
add_aux_segment_front(self, aux_segment_lde) ==
    IF num_rows(self.main_segment_lde) # num_rows(aux_segment_lde)
    THEN [ret |-> "panic", self |-> self]
    ELSE [ret |-> "ok",
          self |-> [self EXCEPT !.aux_segment_ldes = <<aux_segment_lde>> \o @]]

\* variant: the row counts are not compared
add_aux_segment_unchecked(self, aux_segment_lde) ==
    [ret |-> "ok",
     self |-> [self EXCEPT !.aux_segment_ldes = Append(@, aux_segment_lde)]]

\* variant: the segment replaces the stored ones
add_aux_segment_replacing(self, aux_segment_lde) ==
    IF num_rows(self.main_segment_lde) # num_rows(aux_segment_lde)
    THEN [ret |-> "panic", self |-> self]
    ELSE [ret |-> "ok",
          self |-> [self EXCEPT !.aux_segment_ldes = <<aux_segment_lde>>]]

\* assert_eq! on the row counts, then push
add_aux_segment(self, aux_segment_lde) ==
    IF num_rows(self.main_segment_lde) # num_rows(aux_segment_lde)
    THEN [ret |-> "panic", self |-> self]
    ELSE [ret |-> "ok",
          self |-> [self EXCEPT !.aux_segment_ldes = Append(@, aux_segment_lde)]]

main_trace_width(self) == num_cols(self.main_segment_lde)

RECURSIVE fold_cols(_, _)
fold_cols(s, ms) ==
    IF ms = << >> THEN s ELSE fold_cols(s + num_cols(Head(ms)), Tail(ms))

aux_trace_width(self) == fold_cols(0, self.aux_segment_ldes)

trace_len(self) == num_rows(self.main_segment_lde)

blowup(self) == self.blowup

\* variant: the next row of the LDE instead of the next row of the trace
next_lde_step_by_one(self, lde_step) == (lde_step + 1) % trace_len(self)

\* variant: past the end the walk restarts at position 0
next_lde_step_restart(self, lde_step) ==
    IF lde_step + blowup(self) >= trace_len(self) THEN 0 ELSE lde_step + blowup(self)

\* (lde_step + self.blowup()) % self.trace_len(); evaluated only where
\* trace_len > 0 (the remainder panics on a zero divisor)
next_lde_step(self, lde_step) == (lde_step + blowup(self)) % trace_len(self)

Panicked(fr) == [ret |-> "panic", frame |-> fr, next |-> 0]

read_main_trace_frame_into(self, lde_step, fr) ==
    IF trace_len(self) = 0
    THEN Panicked(fr)
    ELSE IF lde_step >= num_rows(self.main_segment_lde)
    THEN Panicked(fr)
    ELSE [ret   |-> "ok",
          frame |-> set_data(fr,
                             row(self.main_segment_lde, lde_step),
                             row(self.main_segment_lde, next_lde_step(self, lde_step))),
          next  |-> next_lde_step(self, lde_step)]

read_aux_trace_frame_into(self, lde_step, fr) ==
    IF trace_len(self) = 0
    THEN Panicked(fr)
    ELSE IF Len(self.aux_segment_ldes) = 0
    THEN Panicked(fr)
    ELSE LET segment == self.aux_segment_ldes[1] IN
         IF \/ lde_step >= num_rows(segment)
            \/ next_lde_step(self, lde_step) >= num_rows(segment)
         THEN Panicked(fr)
         ELSE [ret   |-> "ok",
               frame |-> set_data(fr,
                                  row(segment, lde_step),
                                  row(segment, next_lde_step(self, lde_step))),
               next  |-> next_lde_step(self, lde_step)]

get_main_segment(self) == self.main_segment_lde

\* variant: an index past the end yields the last segment
get_aux_segment_saturating(self, aux_segment_idx) ==
    IF Len(self.aux_segment_ldes) = 0
    THEN [ret |-> "panic", val |-> << >>]
    ELSE IF aux_segment_idx >= Len(self.aux_segment_ldes)
    THEN [ret |-> "ok", val |-> self.aux_segment_ldes[Len(self.aux_segment_ldes)]]
    ELSE [ret |-> "ok", val |-> self.aux_segment_ldes[aux_segment_idx + 1]]

\* Vec indexing: out of range panics
get_aux_segment(self, aux_segment_idx) ==
    IF aux_segment_idx >= Len(self.aux_segment_ldes)
    THEN [ret |-> "panic", val |-> << >>]
    ELSE [ret |-> "ok", val |-> self.aux_segment_ldes[aux_segment_idx + 1]]

\* ---------------------------------------------------------------- calls
Call(op, arg, ret, val, next) ==
    [op |-> op, arg |-> arg, ret |-> ret, val |-> val, next |-> next]

Init ==
    \E m \in MainMatrices, b \in 0..MaxBlowup :
        /\ lde = new(m, b)
        /\ out = Call("new", b, "ok", 0, 0)
        /\ created = [main |-> m, blowup |-> b]
        /\ pushed = << >>
        /\ reading = FALSE

AddAuxSegment ==
    \E seg \in AuxMatrices :
        LET res == add_aux_segment(lde, seg) IN
        /\ Len(lde.aux_segment_ldes) < MaxAux
        /\ lde' = res.self
        /\ out' = Call("add_aux_segment", seg, res.ret, 0, 0)
        /\ pushed' = IF res.ret = "ok" THEN Append(pushed, seg) ELSE pushed
        /\ UNCHANGED <<created, reading>>

MainTraceWidth ==
    /\ out' = Call("main_trace_width", 0, "ok", main_trace_width(lde), 0)
    /\ UNCHANGED <<lde, created, pushed, reading>>

AuxTraceWidth ==
    /\ out' = Call("aux_trace_width", 0, "ok", aux_trace_width(lde), 0)
    /\ UNCHANGED <<lde, created, pushed, reading>>

TraceLen ==
    /\ out' = Call("trace_len", 0, "ok", trace_len(lde), 0)
    /\ UNCHANGED <<lde, created, pushed, reading>>

Blowup ==
    /\ out' = Call("blowup", 0, "ok", blowup(lde), 0)
    /\ UNCHANGED <<lde, created, pushed, reading>>

\* positions handed to the reads: every row of the LDE and one past the end
Steps == 0..trace_len(lde)

ReadMainTraceFrameInto ==
    \E lde_step \in Steps, fr \in InFrames :
        LET res == read_main_trace_frame_into(lde, lde_step, fr) IN
        /\ out' = Call("read_main_trace_frame_into", lde_step, res.ret, res.frame, res.next)
        /\ reading' = TRUE
        /\ UNCHANGED <<lde, created, pushed>>

\* variant: the read takes the segment out of the store
ReadAuxTraceFrameInto_taking ==
    \E lde_step \in Steps, fr \in InFrames :
        LET res == read_aux_trace_frame_into(lde, lde_step, fr) IN
        /\ out' = Call("read_aux_trace_frame_into", lde_step, res.ret, res.frame, res.next)
        /\ reading' = TRUE
        /\ lde' = IF res.ret = "ok"
                  THEN [lde EXCEPT !.aux_segment_ldes = Tail(@)]
                  ELSE lde
        /\ UNCHANGED <<created, pushed>>

ReadAuxTraceFrameInto ==
    \E lde_step \in Steps, fr \in InFrames :
        LET res == read_aux_trace_frame_into(lde, lde_step, fr) IN
        /\ out' = Call("read_aux_trace_frame_into", lde_step, res.ret, res.frame, res.next)
        /\ reading' = TRUE
        /\ UNCHANGED <<lde, created, pushed>>

GetMainSegment ==
    /\ out' = Call("get_main_segment", 0, "ok", get_main_segment(lde), 0)
    /\ reading' = TRUE
    /\ UNCHANGED <<lde, created, pushed>>

GetAuxSegment ==
    \E aux_segment_idx \in 0..MaxAux :
        LET res == get_aux_segment(lde, aux_segment_idx) IN
        /\ out' = Call("get_aux_segment", aux_segment_idx, res.ret, res.val, 0)
        /\ reading' = TRUE
        /\ UNCHANGED <<lde, created, pushed>>

Next ==
    \/ AddAuxSegment
    \/ MainTraceWidth
    \/ AuxTraceWidth
    \/ TraceLen
    \/ Blowup
    \/ ReadMainTraceFrameInto
    \/ ReadAuxTraceFrameInto
    \/ GetMainSegment
    \/ GetAuxSegment

Spec == Init /\ [][Next]_vars

\* ------------------------------------------------------ shared vocabulary
FrameReads == {"read_main_trace_frame_into", "read_aux_trace_frame_into"}

ReadOnlyOps ==
    FrameReads \cup {"main_trace_width", "aux_trace_width", "trace_len", "blowup",
                     "get_main_segment", "get_aux_segment"}

\* the window the spec prescribes at position p of matrix m: rows p and
\* (p + b) mod n, n being the extended length
Window(m, p, b, n) ==
    [current |-> row(m, p), next |-> row(m, (p + b) % n)]

\* ---------------------------------------------------------------- C1
\* C1: whenever read_main_trace_frame_into was called with a position
\* p < trace_len, it succeeded and left in the frame row p of the main segment
\* as current and row (p + blowup) mod trace_len as next, whatever the frame
\* held before.
C1_MainFrame ==
    (out.op = "read_main_trace_frame_into" /\ out.arg < trace_len(lde)) =>
        /\ out.ret = "ok"
        /\ out.val = Window(lde.main_segment_lde, out.arg, lde.blowup,
                            num_rows(lde.main_segment_lde))

\* the boundary scenario: 8 rows of 3 columns, blowup 2, position 6 wraps to
\* row 0
C1_Witness ==
    /\ out.op = "read_main_trace_frame_into"
    /\ out.ret = "ok"
    /\ trace_len(lde) = 8
    /\ lde.blowup = 2
    /\ out.arg = 6
    /\ out.val.current = <<18, 19, 20>>
    /\ out.val.next = <<0, 1, 2>>

\* ---------------------------------------------------------------- C2
\* C2 (as claimed): read_aux_trace_frame_into panics unless exactly one
\* auxiliary segment is stored, and with exactly one it succeeds for every
\* position below trace_len with the window of that segment.
C2_ExactlyOneAux ==
    out.op = "read_aux_trace_frame_into" =>
        /\ Len(lde.aux_segment_ldes) # 1 => out.ret = "panic"
        /\ (Len(lde.aux_segment_ldes) = 1 /\ out.arg < trace_len(lde)) =>
              /\ out.ret = "ok"
              /\ out.val = Window(lde.aux_segment_ldes[1], out.arg, lde.blowup,
                                  trace_len(lde))

\* ---------------------------------------------------------------- C3
\* C3: a step that calls add_aux_segment with a segment whose row count
\* differs from the main segment's panics and leaves the whole TraceLde as it
\* was; with an equal row count it succeeds and the auxiliary sequence is the
\* old one with the segment appended, main segment and blowup unchanged.
C3_Step ==
    out'.op = "add_aux_segment" =>
        IF num_rows(out'.arg) # num_rows(lde.main_segment_lde)
        THEN /\ out'.ret = "panic"
             /\ lde' = lde
        ELSE /\ out'.ret = "ok"
             /\ lde'.aux_segment_ldes = Append(lde.aux_segment_ldes, out'.arg)
             /\ lde'.main_segment_lde = lde.main_segment_lde
             /\ lde'.blowup = lde.blowup

C3_AppendChecked == [][C3_Step]_vars

\* a segment one row short was rejected after another had been accepted
C3_Witness ==
    /\ out.op = "add_aux_segment"
    /\ out.ret = "panic"
    /\ num_rows(out.arg) + 1 = trace_len(lde)
    /\ Len(lde.aux_segment_ldes) = 1
    /\ num_rows(lde.aux_segment_ldes[1]) = trace_len(lde)

\* ---------------------------------------------------------------- C4
RECURSIVE SumCols(_)
SumCols(segs) ==
    IF Len(segs) = 0 THEN 0
    ELSE SumCols(SubSeq(segs, 1, Len(segs) - 1)) + segs[Len(segs)].row_width

\* C4: after k accepted add_aux_segment calls, aux_trace_width returns the sum
\* of the column counts of the k segments and get_aux_segment(i) returns the
\* i-th accepted segment unmodified, for every i < k: both for the calls
\* actually made and for every index of the current state.
C4_InsertionOrder ==
    /\ out.op = "aux_trace_width" => out.val = SumCols(pushed)
    /\ aux_trace_width(lde) = SumCols(pushed)
    /\ (out.op = "get_aux_segment" /\ out.arg < Len(pushed)) =>
          (out.ret = "ok" /\ out.val = pushed[out.arg + 1])
    /\ \A i \in 0..(Len(pushed) - 1) :
          get_aux_segment(lde, i) = [ret |-> "ok", val |-> pushed[i + 1]]

\* two segments of different widths were accepted and the second was viewed
C4_Witness ==
    /\ Len(pushed) = 2
    /\ pushed[1].row_width # pushed[2].row_width
    /\ trace_len(lde) > 0
    /\ out.op = "get_aux_segment"
    /\ out.arg = 1
    /\ out.val = pushed[2]

\* ---------------------------------------------------------------- C5
\* C5: a get_aux_segment(index) call panics exactly when index is at least the
\* number of stored auxiliary segments.
C5_IndexRange ==
    out.op = "get_aux_segment" =>
        (out.ret = "panic" <=> out.arg >= Len(lde.aux_segment_ldes))

\* the first index past a non-empty sequence was asked for
C5_Witness ==
    /\ out.op = "get_aux_segment"
    /\ out.ret = "panic"
    /\ Len(lde.aux_segment_ldes) >= 1
    /\ out.arg = Len(lde.aux_segment_ldes)

\* ---------------------------------------------------------------- C6
\* C6: every stored auxiliary segment has the main segment's row count, which
\* is what trace_len returns.
C6_RowCounts ==
    /\ \A i \in 1..Len(lde.aux_segment_ldes) :
          /\ num_rows(lde.aux_segment_ldes[i]) = num_rows(lde.main_segment_lde)
          /\ Len(lde.aux_segment_ldes[i].data)
                = trace_len(lde) * lde.aux_segment_ldes[i].row_width
    /\ out.op = "trace_len" =>
          /\ out.val = num_rows(lde.main_segment_lde)
          /\ \A i \in 1..Len(lde.aux_segment_ldes) :
                num_rows(lde.aux_segment_ldes[i]) = out.val

\* two segments are stored and trace_len was asked for
C6_Witness ==
    /\ Len(lde.aux_segment_ldes) = 2
    /\ trace_len(lde) > 1
    /\ out.op = "trace_len"

\* ---------------------------------------------------------------- C7
ValidDims(rows, b) == rows > 0 /\ b > 0 /\ rows % b = 0

\* C7 (as claimed): in every reachable state trace_len is a positive multiple
\* of a positive blowup.
C7_PositiveMultiple == ValidDims(trace_len(lde), blowup(lde))

\* C7 (amended): trace_len and blowup are in every reachable state the row
\* count of the matrix and the blowup that new() was given, so the row count
\* is a positive multiple of the blowup exactly when new()'s arguments were.
C7_DimsAsCreated ==
    /\ trace_len(lde) = num_rows(created.main)
    /\ blowup(lde) = created.blowup
    /\ out.op = "blowup" => out.val = created.blowup
    /\ out.op = "trace_len" => out.val = num_rows(created.main)
    /\ ValidDims(trace_len(lde), blowup(lde))
          <=> ValidDims(num_rows(created.main), created.blowup)

\* a store of 8 rows created with blowup 3, after appends and reads
C7_Witness ==
    /\ trace_len(lde) = 8
    /\ blowup(lde) = 3
    /\ Len(lde.aux_segment_ldes) = 2
    /\ reading
    /\ out.op = "blowup"

\* ---------------------------------------------------------------- C8
\* C8: a step that makes a query, a view or a frame read leaves the TraceLde
\* (main segment, auxiliary sequence, blowup) unchanged, and what a frame read
\* leaves in the frame is what the same read leaves in a fresh frame: it
\* depends on the store and the position alone, not on earlier calls.
C8_Step ==
    out'.op \in ReadOnlyOps =>
        /\ lde' = lde
        /\ (out'.op = "read_main_trace_frame_into" /\ out'.ret = "ok") =>
              out'.val = read_main_trace_frame_into(lde, out'.arg, EmptyFrame).frame
        /\ (out'.op = "read_aux_trace_frame_into" /\ out'.ret = "ok") =>
              out'.val = read_aux_trace_frame_into(lde, out'.arg, EmptyFrame).frame

RECURSIVE StepTimes(_, _, _)
StepTimes(self, k, p) ==
    IF k = 0 THEN p ELSE StepTimes(self, k - 1, next_lde_step(self, p))

\* C9: when trace_len = n * blowup with n > 0 and blowup > 0, a successful
\* frame read at p = i * blowup + j (j < blowup) computes the next position
\* ((i + 1) mod n) * blowup + j, and n successive steps from any position
\* return to it.
C9_CosetStep ==
    ValidDims(trace_len(lde), blowup(lde)) =>
        LET b == blowup(lde)
            n == trace_len(lde) \div b
        IN  /\ (out.op \in FrameReads /\ out.ret = "ok") =>
                  out.next = (((out.arg \div b) + 1) % n) * b + (out.arg % b)
            /\ \A p \in 0..(trace_len(lde) - 1) :
                  /\ next_lde_step(lde, p) = (((p \div b) + 1) % n) * b + (p % b)
                  /\ StepTimes(lde, n, p) = p

\* the last original row of a coset other than the first: 8 rows, blowup 2,
\* position 7 steps to position 1
C9_Witness ==
    /\ out.op \in FrameReads
    /\ out.ret = "ok"
    /\ trace_len(lde) = 8
    /\ blowup(lde) = 2
    /\ out.arg = 7
    /\ out.next = 1

\* ---------------------------------------------------------------- C10
IsPrefix(s, t) == Len(s) <= Len(t) /\ SubSeq(t, 1, Len(s)) = s

\* C10 (as claimed): once a frame read or a view has been made, no later step
\* changes the auxiliary sequence.
C10_Sealed == [][reading => lde'.aux_segment_ldes = lde.aux_segment_ldes]_vars

\* C10 (amended): once a frame read or a view has been made, no later step
\* changes the main segment or the blowup or touches a stored auxiliary
\* segment; the only change left is add_aux_segment appending a segment of
\* matching row count at the end.
C10_Step ==
    reading =>
        /\ lde'.main_segment_lde = lde.main_segment_lde
        /\ lde'.blowup = lde.blowup
        /\ IsPrefix(lde.aux_segment_ldes, lde'.aux_segment_ldes)
        /\ lde'.aux_segment_ldes # lde.aux_segment_ldes =>
              /\ out'.op = "add_aux_segment"
              /\ out'.ret = "ok"
              /\ num_rows(out'.arg) = num_rows(lde.main_segment_lde)
              /\ lde'.aux_segment_ldes = Append(lde.aux_segment_ldes, out'.arg)

C10_GrowsOnly == [][C10_Step]_vars

\* a second segment was accepted after the reads had begun
C10_Witness ==
    /\ reading
    /\ out.op = "add_aux_segment"
    /\ out.ret = "ok"
    /\ Len(lde.aux_segment_ldes) = 2
    /\ trace_len(lde) > 0

====
